---- MODULE Spec2Model ----
(***************************************************************************)
(* Verification model of the drone-detection KNN backend                   *)
(* (server/drone classifier, template matcher, HTTP and socket handlers).  *)
(*                                                                         *)
(* Numbers.  The code computes in float64.  The model computes the same    *)
(* expressions exactly: a value is a fraction whose numerator is a         *)
(* polynomial in eps = 1e-9 (the constant the code adds to every distance  *)
(* and uses as its sort tolerance) and whose denominator is a bag of       *)
(* positive polynomial factors.  <<c0, c1, ...>> stands for                *)
(* c0 + c1*eps + c2*eps^2 + ...; its sign is the sign of its first         *)
(* non-zero coefficient, which is exact while every coefficient is below   *)
(* 10^9 in magnitude.  Rounding of the order of 1e-16 is not modelled.     *)
(***************************************************************************)
EXTENDS Integers, Sequences, FiniteSets, Bags, TLC

\* ------------------------------------------------------------------ bounds
\* Stand-in for the 2048 components of a PANNS embedding.
EmbedDim == 3
\* Stand-in for the 19 components of a hand-crafted feature vector.
LegacyDim == 2
\* Largest number of analysis windows of one sliding-window request.
MaxWindows == 2
\* Largest configured neighbour count k.
MaxK == 3
\* Largest number of upload requests served.
MaxUploads == 2

\* ------------------------------------------------------ integer helpers
IMax(a, b) == IF a >= b THEN a ELSE b

IMin(a, b) == IF a <= b THEN a ELSE b

IAbs(a) == IF a < 0 THEN -a ELSE a

\* The sequence s with every element computed.
Mat(s) == SubSeq(s, 1, Len(s))

RECURSIVE ISqrtFrom(_, _)
ISqrtFrom(n, r) == IF (r + 1) * (r + 1) > n THEN r ELSE ISqrtFrom(n, r + 1)

\* math.Sqrt on the perfect squares the model's vectors produce.
ISqrt(n) == ISqrtFrom(n, 0)

\* --------------------------------------------- polynomials in eps = 1e-9
RECURSIVE PTrim(_)
PTrim(p) == IF p = <<>> THEN <<>>
            ELSE IF p[Len(p)] = 0 THEN PTrim(SubSeq(p, 1, Len(p) - 1))
            ELSE p

PCoef(p, i) == IF i <= Len(p) THEN p[i] ELSE 0

PAdd(p, q) == PTrim(Mat([i \in 1..IMax(Len(p), Len(q)) |-> PCoef(p, i) + PCoef(q, i)]))

PNeg(p) == Mat([i \in 1..Len(p) |-> -p[i]])

PSub(p, q) == PAdd(p, PNeg(q))

PScale(c, p) == PTrim(Mat([i \in 1..Len(p) |-> c * p[i]]))

RECURSIVE PConv(_, _, _, _)
PConv(p, q, k, i) ==
    IF i > Len(p) THEN 0
    ELSE (IF k - i + 1 >= 1 /\ k - i + 1 <= Len(q) THEN p[i] * q[k - i + 1] ELSE 0)
         + PConv(p, q, k, i + 1)

PMul(p, q) == IF p = <<>> \/ q = <<>> THEN <<>>
              ELSE PTrim(Mat([k \in 1..(Len(p) + Len(q) - 1) |-> PConv(p, q, k, 1)]))

RECURSIVE PSignFrom(_, _)
PSignFrom(p, i) == IF i > Len(p) THEN 0
                   ELSE IF p[i] > 0 THEN 1
                   ELSE IF p[i] < 0 THEN -1
                   ELSE PSignFrom(p, i + 1)

PSign(p) == PSignFrom(p, 1)

PInt(c) == IF c = 0 THEN <<>> ELSE <<c>>

\* The constant 1e-9 of the classifier.
PEps == <<0, 1>>

\* ------------------------------------------------ bags of positive factors
BagMax(a, b) == (a (-) b) (+) b

RECURSIVE PPow(_, _)
PPow(p, n) == IF n = 0 THEN <<1>> ELSE PMul(p, PPow(p, n - 1))

RECURSIVE BagProdOver(_, _)
BagProdOver(b, S) == IF S = {} THEN <<1>>
                     ELSE LET e == CHOOSE x \in S : TRUE
                          IN PMul(PPow(e, b[e]), BagProdOver(b, S \ {e}))

BagProd(b) == BagProdOver(b, DOMAIN b)

\* ------------------------------------------------------- exact float64
RInt(c) == [n |-> PInt(c), d |-> EmptyBag]

RZero == RInt(0)

ROne == RInt(1)

REps == [n |-> PEps, d |-> EmptyBag]

\* The integer c >= 1 with n = c * g, or 0 when there is none.
PRatio(n, g) ==
    IF n = <<>> \/ g = <<>> \/ Len(n) # Len(g) THEN 0
    ELSE LET c == n[Len(n)] \div g[Len(g)]
         IN IF c >= 1 /\ PScale(c, g) = n THEN c ELSE 0

\* Cancel a denominator factor the numerator is a multiple of.
RSimplify(a) ==
    IF a.n = <<>> THEN [n |-> <<>>, d |-> EmptyBag]
    ELSE LET hits == {g \in DOMAIN a.d : PRatio(a.n, g) > 0}
         IN IF hits = {} THEN a
            ELSE LET g == CHOOSE x \in hits : TRUE
                 IN [n |-> <<PRatio(a.n, g)>>, d |-> a.d (-) SetToBag({g})]

RAdd(a, b) ==
    LET d == BagMax(a.d, b.d)
    IN RSimplify([n |-> PAdd(PMul(a.n, BagProd(d (-) a.d)),
                             PMul(b.n, BagProd(d (-) b.d))),
                  d |-> d])

RNeg(a) == [n |-> PNeg(a.n), d |-> a.d]

RSub(a, b) == RAdd(a, RNeg(b))

RMul(a, b) == RSimplify([n |-> PMul(a.n, b.n), d |-> a.d (+) b.d])

\* a / b for b > 0.
RDiv(a, b) ==
    RSimplify([n |-> PMul(a.n, BagProd(b.d (-) a.d)),
               d |-> (a.d (-) b.d) (+) (IF b.n = <<1>> THEN EmptyBag ELSE SetToBag({b.n}))])

RSign(a) == PSign(a.n)

RLess(a, b) == RSign(RSub(a, b)) < 0

RLeq(a, b) == RSign(RSub(a, b)) <= 0

REq(a, b) == RSign(RSub(a, b)) = 0

RAbs(a) == IF RSign(a) < 0 THEN RNeg(a) ELSE a

\* A threshold given in thousandths.
RMilli(m) == RSimplify([n |-> PInt(m), d |-> SetToBag({<<1000>>})])

\* ------------------------------------------------------------- strings
\* strings.ToLower on the strings the model uses.
ToLower(s) == CASE s = "Noise" -> "noise"
                [] s = "Quad" -> "quad"
                [] OTHER -> s

\* strings.EqualFold.
EqualFold(a, b) == ToLower(a) = ToLower(b)

\* ------------------------------------------------------------- vectors
RECURSIVE SumTo(_, _, _, _)
SumTo(a, b, limit, i) == IF i > limit THEN 0 ELSE a[i] * b[i] + SumTo(a, b, limit, i + 1)

\* Weighted cosine similarity (all feature weights are 1.0); the vectors are
\* compared over their common prefix.  The model's vectors are multiples of
\* unit axes, so the quotient is exactly -1, 0 or 1.
cosineSimilarity(a, b) ==
    LET limit == IMin(Len(a), Len(b))
        dotProduct == SumTo(a, b, limit, 1)
        normA == SumTo(a, a, limit, 1)
        normB == SumTo(b, b, limit, 1)
    IN IF normA = 0 \/ normB = 0 THEN 0
       ELSE dotProduct \div ISqrt(normA * normB)

\* Divide by the Euclidean norm; a zero vector is left as it is.
NormaliseVectorInPlace(v) ==
    LET norm == ISqrt(SumTo(v, v, Len(v), 1))
    IN IF norm = 0 THEN v ELSE Mat([i \in 1..Len(v) |-> v[i] \div norm])

\* ------------------------------------------------------------- sorting
\* sort.Slice on at most 12 elements is an insertion sort: element i moves
\* left while less(data[j], data[j-1]).
SwapAt(s, j) == [s EXCEPT ![j] = s[j - 1], ![j - 1] = s[j]]

DistLess(x, y) == x.distance < y.distance

RECURSIVE BubbleDist(_, _)
BubbleDist(s, j) == IF j > 1 /\ DistLess(s[j], s[j - 1])
                    THEN BubbleDist(SwapAt(s, j), j - 1) ELSE s

RECURSIVE SortDistFrom(_, _)
SortDistFrom(s, i) == IF i > Len(s) THEN s ELSE SortDistFrom(BubbleDist(s, i), i + 1)

SortDistances(s) == SortDistFrom(s, 2)

\* Bug: confidences within the tolerance are left in the order they came.
TolerantLessNoTieBreak(p, q) ==
    /\ RLess(REps, RAbs(RSub(p.confidence, q.confidence)))
    /\ RLess(q.confidence, p.confidence)

\* The comparator of Classifier.Predict and PredictWithSlidingWindows:
\* confidences within 1e-9 of each other count as tied.
TolerantLess(p, q) ==
    IF RLess(REps, RAbs(RSub(p.confidence, q.confidence)))
    THEN RLess(q.confidence, p.confidence)
    ELSE RLess(p.averageDist, q.averageDist)

\* The comparator of TemplateMatcher.Predict and MergePredictions.
ExactLess(p, q) ==
    IF ~REq(p.confidence, q.confidence)
    THEN RLess(q.confidence, p.confidence)
    ELSE RLess(p.averageDist, q.averageDist)

PredLess(tolerant, p, q) == IF tolerant THEN TolerantLess(p, q) ELSE ExactLess(p, q)

RECURSIVE BubblePred(_, _, _)
BubblePred(tolerant, s, j) ==
    IF j > 1 /\ PredLess(tolerant, s[j], s[j - 1])
    THEN BubblePred(tolerant, SwapAt(s, j), j - 1) ELSE s

RECURSIVE SortPredFrom(_, _, _)
SortPredFrom(tolerant, s, i) ==
    IF i > Len(s) THEN s ELSE SortPredFrom(tolerant, BubblePred(tolerant, s, i), i + 1)

SortPredictions(tolerant, s) == SortPredFrom(tolerant, s, 2)

\* ------------------------------------------------------------ sequences
RECURSIVE RSumSeq(_)
RSumSeq(s) == IF s = <<>> THEN RZero ELSE RAdd(RSumSeq(SubSeq(s, 1, Len(s) - 1)), s[Len(s)])

RECURSIVE ISumSeq(_)
ISumSeq(s) == IF s = <<>> THEN 0 ELSE ISumSeq(SubSeq(s, 1, Len(s) - 1)) + s[Len(s)]

Range(s) == {s[i] : i \in DOMAIN s}

\* The orders in which a map with key set S can be iterated.
Perms(S) == {s \in [1..Cardinality(S) -> S] : Range(s) = S}

\* ------------------------------------------------------ Classifier.Predict
\* c is the classifier state [prototypes, k, labelCategory]; order is the
\* order in which the run iterates the labelScores map.
Distances(features, prototypes) ==
    SortDistances(Mat([i \in 1..Len(prototypes) |->
        [index |-> i, distance |-> 1 - cosineSimilarity(features, prototypes[i].features)]]))

\* Bug: the neighbour loop runs one step too far (idx <= k).
EffectiveKOffByOne(k, n) == IF n < k THEN IMax(1, n) ELSE k + 1

EffectiveK(k, n) == IF n < k THEN IMax(1, n) ELSE k

Neighbours(features, c) ==
    LET ds == Distances(features, c.prototypes)
    IN SubSeq(ds, 1, IMin(Len(ds), EffectiveK(c.k, Len(c.prototypes))))

\* Bug: the smoothing term is 1 instead of 1e-9.
WeightSmoothedByOne(distance) == RDiv(ROne, RAdd(RInt(distance), ROne))

Weight(distance) == RDiv(ROne, RAdd(RInt(distance), REps))

LabelScore(nbrs, prototypes, label) ==
    LET mine == SelectSeq(nbrs, LAMBDA nb : prototypes[nb.index].label = label)
    IN [weightSum |-> RSumSeq(Mat([i \in 1..Len(mine) |-> Weight(mine[i].distance)])),
        distSum |-> ISumSeq(Mat([i \in 1..Len(mine) |-> mine[i].distance])),
        count |-> Len(mine),
        prototypes |-> Mat([i \in 1..Len(mine) |->
                          [id |-> prototypes[mine[i].index].id,
                           distance |-> mine[i].distance]])]

\* Labels among the neighbours: the keys of the labelScores map.
NeighbourLabels(features, c) ==
    IF Len(c.prototypes) = 0 THEN {}
    ELSE {c.prototypes[nb.index].label : nb \in Range(Neighbours(features, c))}

\* Bug: the weight sum is reported without dividing by the total.
ConfidenceUnnormalised(weightSum, totalWeight) == weightSum

\* A label's confidence: its share of the neighbours' weight.
Confidence(weightSum, totalWeight) == RDiv(weightSum, totalWeight)

\* Predict on a store that holds at least one prototype.
PredictRanked(features, c, order) ==
    LET nbrs == Neighbours(features, c)
        totalWeight == RSumSeq(Mat([i \in 1..Len(nbrs) |-> Weight(nbrs[i].distance)]))
        present == {c.prototypes[nbrs[i].index].label : i \in 1..Len(nbrs)}
        labels == SelectSeq(order, LAMBDA l : l \in present)
        entry(label) ==
            LET stats == LabelScore(nbrs, c.prototypes, label)
            IN [label |-> label,
                category |-> IF label \in DOMAIN c.labelCategory
                             THEN c.labelCategory[label] ELSE "",
                confidence |-> Confidence(stats.weightSum, totalWeight),
                averageDist |-> RDiv(RInt(stats.distSum), RInt(stats.count)),
                support |-> stats.count,
                topPrototypes |-> stats.prototypes]
    IN IF RSign(totalWeight) = 0 THEN <<>>
       ELSE SortPredictions(TRUE, Mat([i \in 1..Len(labels) |-> entry(labels[i])]))

\* Bug: a store without prototypes is reported as an error.
PredictEmptyStoreIsError(features, c, order) ==
    IF Len(features) = 0 \/ Len(c.prototypes) = 0 THEN [err |-> TRUE, preds |-> <<>>]
    ELSE [err |-> FALSE, preds |-> PredictRanked(features, c, order)]

Predict(features, c, order) ==
    IF Len(features) = 0 THEN [err |-> TRUE, preds |-> <<>>]
    ELSE IF Len(c.prototypes) = 0 THEN [err |-> FALSE, preds |-> <<>>]
    ELSE [err |-> FALSE, preds |-> PredictRanked(features, c, order)]

\* ------------------------------------ Classifier.PredictWithSlidingWindows
RECURSIVE Flatten(_)
Flatten(ss) == IF ss = <<>> THEN <<>> ELSE Head(ss) \o Flatten(Tail(ss))

Reverse(s) == Mat([i \in 1..Len(s) |-> s[Len(s) + 1 - i]])

\* IDs of a score list in order of first appearance.
RECURSIVE FirstIds(_, _)
FirstIds(scores, seen) ==
    IF scores = <<>> THEN <<>>
    ELSE IF Head(scores).id \in seen THEN FirstIds(Tail(scores), seen)
    ELSE <<Head(scores).id>> \o FirstIds(Tail(scores), seen \cup {Head(scores).id})

RECURSIVE BubbleScore(_, _)
BubbleScore(s, j) == IF j > 1 /\ DistLess(s[j], s[j - 1])
                     THEN BubbleScore(SwapAt(s, j), j - 1) ELSE s

RECURSIVE SortScoreFrom(_, _)
SortScoreFrom(s, i) == IF i > Len(s) THEN s ELSE SortScoreFrom(BubbleScore(s, i), i + 1)

\* Scores are kept per prototype id, the closer score winning; the weight
\* 1/(distance + 1e-9) orders scores exactly as the distance does, so the
\* model compares distances.  reversed selects the order in which the run
\* iterates the combined map (first-appearance order or its reverse).
mergePrototypeScores(existing, additional, limit, reversed) ==
    IF Len(existing) = 0 /\ Len(additional) = 0 THEN <<>>
    ELSE
      LET all == existing \o additional
          ids == FirstIds(all, {})
          best(id) ==
              LET mine == SelectSeq(all, LAMBDA sc : sc.id = id)
                  least == SelectSeq(mine, LAMBDA sc :
                              \A j \in 1..Len(mine) : sc.distance <= mine[j].distance)
              IN Head(least)
          combined == Mat([i \in 1..Len(ids) |-> best(ids[i])])
          result == SortScoreFrom(IF reversed THEN Reverse(combined) ELSE combined, 2)
      IN IF limit > 0 /\ Len(result) > limit THEN SubSeq(result, 1, limit) ELSE result

RECURSIVE MergeAllScores(_, _, _)
MergeAllScores(preds, limit, reversed) ==
    IF preds = <<>> THEN <<>>
    ELSE mergePrototypeScores(
             MergeAllScores(SubSeq(preds, 1, Len(preds) - 1), limit, reversed),
             preds[Len(preds)].topPrototypes, limit, reversed)

\* Number of prototype scores kept per aggregated label.
TopPrototypeLimit == 5

\* windowPreds holds the prediction list of each analysed window, in window
\* order; order is the iteration order of the labelAggregates map.
AggregateWindows(windowPreds, order, reversed) ==
    LET counted == SelectSeq(Flatten(windowPreds), LAMBDA p : RSign(p.confidence) > 0)
        totalWeight == RSumSeq(Mat([i \in 1..Len(counted) |-> counted[i].confidence]))
        present == {counted[i].label : i \in 1..Len(counted)}
        labels == SelectSeq(order, LAMBDA l : l \in present)
        entry(label) ==
            LET mine == SelectSeq(counted, LAMBDA p : p.label = label)
                weightSum == RSumSeq(Mat([i \in 1..Len(mine) |-> mine[i].confidence]))
                distWeightedSum ==
                    RSumSeq(Mat([i \in 1..Len(mine) |->
                                RMul(mine[i].averageDist, mine[i].confidence)]))
                named == SelectSeq(mine, LAMBDA p : p.category # "")
            IN [label |-> label,
                category |-> IF named = <<>> THEN "" ELSE Head(named).category,
                confidence |-> RDiv(weightSum, totalWeight),
                averageDist |-> IF RSign(weightSum) > 0
                                THEN RDiv(distWeightedSum, weightSum) ELSE RZero,
                support |-> ISumSeq(Mat([i \in 1..Len(mine) |-> mine[i].support])),
                topPrototypes |-> MergeAllScores(mine, TopPrototypeLimit, reversed)]
    IN IF Len(windowPreds) = 0 THEN [err |-> TRUE, preds |-> <<>>]
       ELSE IF present = {} \/ RSign(totalWeight) = 0 THEN [err |-> FALSE, preds |-> <<>>]
       ELSE [err |-> FALSE,
             preds |-> SortPredictions(TRUE, Mat([i \in 1..Len(labels) |-> entry(labels[i])]))]

\* ------------------------------------------------------ template matcher
RClamp01(x) == IF RSign(x) < 0 THEN RZero ELSE IF RLess(ROne, x) THEN ROne ELSE x

similarityToConfidence(sim) == RClamp01(RDiv(RInt(sim + 1), RInt(2)))

\* tm is [templates, threshold], the threshold in thousandths, or NoMatcher.
NoMatcher == [templates |-> <<>>, threshold |-> -1]

TemplatePredict(tm, features) ==
    IF tm = NoMatcher \/ Len(features) = 0 THEN <<>>
    ELSE
      LET kept == SelectSeq(tm.templates, LAMBDA tpl :
                    ~(tm.threshold > 0 /\
                      RLess(similarityToConfidence(cosineSimilarity(features, tpl.features)),
                            RMilli(tm.threshold))))
      IN SortPredictions(FALSE, Mat([i \in 1..Len(kept) |->
            [label |-> kept[i].label,
             category |-> "template",
             confidence |-> similarityToConfidence(
                                cosineSimilarity(features, kept[i].features)),
             averageDist |-> RInt(1 - cosineSimilarity(features, kept[i].features)),
             support |-> 1,
             topPrototypes |-> <<>>]]))

\* The index map after the base list and then the additions were entered:
\* the entry kept under one lower-cased label.
RECURSIVE MergeEntry(_, _, _)
MergeEntry(key, base, additions) ==
    IF additions # <<>> THEN
        LET pred == additions[Len(additions)]
            before == MergeEntry(key, base, SubSeq(additions, 1, Len(additions) - 1))
        IN IF ToLower(pred.label) # key THEN before
           ELSE IF before = <<>> THEN <<pred>>
           ELSE IF RLess(before[1].confidence, pred.confidence) THEN <<pred>>
           ELSE before
    ELSE IF base # <<>> THEN
        LET pred == base[Len(base)]
        IN IF ToLower(pred.label) = key THEN <<pred>>
           ELSE MergeEntry(key, SubSeq(base, 1, Len(base) - 1), <<>>)
    ELSE <<>>

\* order is the iteration order of the index map (lower-cased labels).
MergePredictions(base, additions, order) ==
    IF Len(additions) = 0 THEN base
    ELSE
      LET keys == {ToLower(p.label) : p \in Range(base) \cup Range(additions)}
          iter == SelectSeq(order, LAMBDA l : l \in keys)
      IN SortPredictions(FALSE,
            Mat([i \in 1..Len(iter) |-> MergeEntry(iter[i], base, additions)[1]]))

\* ------------------------------------------------------------- decision
\* Bug: the bands include their upper bound (<= instead of <).
AdaptiveThresholdClosedBands(baseThreshold, snrDb) ==
    LET adjustment == IF snrDb <= 10000 THEN 150
                      ELSE IF snrDb <= 20000 THEN 100
                      ELSE IF snrDb <= 30000 THEN 50
                      ELSE 0
        adjustedThreshold == baseThreshold + adjustment
    IN IF adjustedThreshold < 500 THEN 500
       ELSE IF adjustedThreshold > 900 THEN 900
       ELSE adjustedThreshold

\* Thresholds are in thousandths, SNR values in thousandths of a dB.
AdaptiveThreshold(baseThreshold, snrDb) ==
    LET adjustment == IF snrDb < 10000 THEN 150
                      ELSE IF snrDb < 20000 THEN 100
                      ELSE IF snrDb < 30000 THEN 50
                      ELSE 0
        adjustedThreshold == baseThreshold + adjustment
    IN IF adjustedThreshold < 500 THEN 500
       ELSE IF adjustedThreshold > 900 THEN 900
       ELSE adjustedThreshold

\* Bug: the category is compared with "noise" letter for letter.
DetermineDroneCaseSensitive(predictions, baseThreshold, snrDb) ==
    IF Len(predictions) = 0 THEN FALSE
    ELSE LET best == predictions[1]
             threshold == IF snrDb # 0 THEN AdaptiveThreshold(baseThreshold, snrDb)
                          ELSE baseThreshold
         IN IF best.category = "noise" THEN FALSE
            ELSE RLeq(RMilli(threshold), best.confidence)

DetermineDroneLikelyWithSNR(predictions, baseThreshold, snrDb) ==
    IF Len(predictions) = 0 THEN FALSE
    ELSE LET best == predictions[1]
             threshold == IF snrDb # 0 THEN AdaptiveThreshold(baseThreshold, snrDb)
                          ELSE baseThreshold
         IN IF EqualFold(best.category, "noise") THEN FALSE
            ELSE RLeq(RMilli(threshold), best.confidence)

\* ----------------------------------------------------------- file system
\* A path is its sequence of components; DRONE_MODEL_PATH is
\* drone/prototypes.json.
ModelPathEnv == <<"prototypes", ".json">>

\* filepath.Ext and strings.TrimSuffix(path, ext).
Ext(path) == IF Len(path) > 1 THEN <<path[Len(path)]>> ELSE <<>>

TrimExt(path) == IF Len(path) > 1 THEN SubSeq(path, 1, Len(path) - 1) ELSE path

FallbackPath(path) == TrimExt(path) \o <<".example">> \o Ext(path)

HasSuffix(path, suffix) == path # <<>> /\ path[Len(path)] = suffix

TrimSuffix(path, suffix) ==
    IF HasSuffix(path, suffix) THEN SubSeq(path, 1, Len(path) - 1) ELSE path

TempPath(path) == path \o <<".tmp">>

Paths == {ModelPathEnv, FallbackPath(ModelPathEnv),
          TempPath(ModelPathEnv), TempPath(FallbackPath(ModelPathEnv))}

\* The upload requests that may be in flight together.
Uploaders == {1, 2}

\* Inode 0 stands for "no such file".
Inodes == 1..(Cardinality(Uploaders) + 1)

NoProto == [id |-> 0, label |-> "", category |-> "", features |-> <<>>]

Tok(t, v) == [t |-> t, v |-> v]

\* json.MarshalIndent of a prototype list: an array of objects.
Marshal(prototypes) ==
    <<Tok("[", NoProto)>> \o Mat([i \in 1..Len(prototypes) |-> Tok("{}", prototypes[i])])
                          \o <<Tok("]", NoProto)>>

\* json.Unmarshal into []Prototype: one complete array and nothing else.
WellFormed(data) ==
    /\ Len(data) >= 2
    /\ data[1].t = "["
    /\ data[Len(data)].t = "]"
    /\ \A i \in 2..(Len(data) - 1) : data[i].t = "{}"

Unmarshal(data) ==
    IF WellFormed(data)
    THEN [ok |-> TRUE, prototypes |-> Mat([i \in 1..(Len(data) - 2) |-> data[i + 1].v])]
    ELSE [ok |-> FALSE, prototypes |-> <<>>]

\* write(2) at offset 0 of a file that may already hold bytes.
Overlay(old, data) ==
    Mat([i \in 1..IMax(Len(old), Len(data)) |-> IF i <= Len(data) THEN data[i] ELSE old[i]])

\* ----------------------------------------------------- classifier state
\* labelCategory of a prototype list read from disk: first writer wins.
RECURSIVE LoadCategories(_)
LoadCategories(prototypes) ==
    IF prototypes = <<>> THEN <<>>
    ELSE LET before == LoadCategories(SubSeq(prototypes, 1, Len(prototypes) - 1))
             proto == prototypes[Len(prototypes)]
         IN IF proto.label \in DOMAIN before THEN before
            ELSE [l \in {proto.label} |-> proto.category] @@ before

\* d is the directory (path -> inode), f the inode contents.
NewClassifierFromFile(d, f, path, k) ==
    LET failed == [ok |-> FALSE, c |-> <<>>]
        primary == d[path] # 0
        resolvedPath == IF primary THEN path ELSE FallbackPath(path)
        parsed == Unmarshal(f[d[resolvedPath]])
        prototypes == parsed.prototypes
        usingExample == HasSuffix(resolvedPath, ".example")
    IN IF k <= 0 THEN failed
       ELSE IF d[resolvedPath] = 0 THEN failed
       ELSE IF ~parsed.ok THEN failed
       ELSE IF \E i \in 1..Len(prototypes) :
                  \/ Len(prototypes[i].features) = 0
                  \/ prototypes[i].label = ""
                  \/ Len(prototypes[i].features) # EmbedDim
            THEN failed
       ELSE [ok |-> TRUE,
             c |-> [prototypes |-> prototypes,
                    k |-> IF Len(prototypes) > 0 /\ k > Len(prototypes)
                          THEN Len(prototypes) ELSE k,
                    usingExample |-> usingExample,
                    modelPath |-> IF usingExample
                                  THEN TrimSuffix(resolvedPath, ".example")
                                  ELSE resolvedPath,
                    labelCategory |-> LoadCategories(prototypes),
                    featureScaler |-> "nil"]]

\* Prototype count below which serve lowers k, and the k it lowers it to.
SmallStoreCount == 10

SmallStoreK == 3

\* Bug: serve keeps the k of the first load (no rule for small stores).
ServeWithoutSmallStoreRule(d, f, k) == NewClassifierFromFile(d, f, ModelPathEnv, k)

\* serve: load, then adapt k to the prototype count, reloading each time.
Serve(d, f, k) ==
    LET first == NewClassifierFromFile(d, f, ModelPathEnv, k)
        prototypeCount == Len(first.c.prototypes)
        k1 == IF prototypeCount > 0 /\ k > prototypeCount THEN prototypeCount ELSE k
        k2 == IF prototypeCount < SmallStoreCount /\ k1 > SmallStoreK THEN SmallStoreK ELSE k1
    IN IF ~first.ok THEN first
       ELSE IF k2 # k THEN NewClassifierFromFile(d, f, ModelPathEnv, k2)
       ELSE first

\* The new prototype takes the place of the stored ones of its label.
AddPrototypeReplacingLabel(c, proto) ==
    LET stored == [proto EXCEPT !.features = NormaliseVectorInPlace(proto.features)]
    IN [c EXCEPT
          !.prototypes = Append(SelectSeq(c.prototypes, LAMBDA q : q.label # proto.label),
                                stored),
          !.labelCategory =
              IF proto.label # "" /\ proto.category # ""
              THEN [l \in {proto.label} |-> proto.category] @@ c.labelCategory
              ELSE c.labelCategory,
          !.usingExample = FALSE]

AddPrototype(c, proto) ==
    LET stored == [proto EXCEPT !.features = NormaliseVectorInPlace(proto.features)]
    IN [c EXCEPT
          !.prototypes = Append(c.prototypes, stored),
          !.labelCategory =
              IF proto.label # "" /\ proto.category # ""
              THEN [l \in {proto.label} |-> proto.category] @@ c.labelCategory
              ELSE c.labelCategory,
          !.usingExample = FALSE]

\* ---------------------------------------------------------------- state
VARIABLES
    server,           \* "stopped" before serve runs, then "up", or "down" once
                      \* serve failed to load the model
    classifier,       \* the shared *Classifier
    templateMatcher,  \* the shared *TemplateMatcher, or NoMatcher
    dir,              \* directory: path -> inode (0: no such file)
    inodes,           \* inode -> bytes
    cls,              \* the classification request in flight
    up,               \* the upload requests in flight
    envK,             \* DRONE_MODEL_K
    env,              \* the process environment: variable -> value ("": unset)
    bootEnv,          \* history: the environment serve started in
    nextId,           \* number of prototype ids generated so far
    saved,            \* history: prototypes whose upload saw its save succeed
    images            \* history: the file images complete saves consist of

vars == <<server, classifier, templateMatcher, dir, inodes, cls, up, envK, env, bootEnv,
          nextId, saved, images>>

\* ------------------------------------------------------------ input sets
UnitVec(dim, axis, mag) == Mat([i \in 1..dim |-> IF i = axis THEN mag ELSE 0])

Proto(id, label, category, features) ==
    [id |-> id, label |-> label, category |-> category, features |-> features]

\* Prototypes a model file on disk may hold (PANNS embeddings, as stored:
\* not necessarily of unit length).
Catalogue ==
    << Proto(1, "quad", "drone", UnitVec(EmbedDim, 1, 2)),
       Proto(2, "quad", "drone", UnitVec(EmbedDim, 1, 1)),
       Proto(3, "bus", "noise", UnitVec(EmbedDim, 2, 1)),
       Proto(4, "bus", "Noise", UnitVec(EmbedDim, 2, 2)) >>

\* The sub-lists of the catalogue, in catalogue order.
SubLists(s) == {SelectSeq(s, LAMBDA x : x.id \in ids) : ids \in SUBSET {s[i].id : i \in 1..Len(s)}}

\* Templates are stored at unit length.
Templates ==
    << [label |-> "heli", features |-> UnitVec(EmbedDim, 2, 1)],
       [label |-> "Quad", features |-> UnitVec(EmbedDim, 1, 1)] >>

\* DRONE_TEMPLATE_THRESHOLD, in thousandths, of the configurations with a
\* template file.
TemplateThresholds == {400}

Matchers == {NoMatcher} \cup {[templates |-> Templates, threshold |-> t] : t \in TemplateThresholds}

\* Feature vectors of a request: a PANNS embedding or a hand-crafted vector.
EmbedQueries == {UnitVec(EmbedDim, 1, 1), UnitVec(EmbedDim, 1, -1), UnitVec(EmbedDim, 2, 1)}

LegacyQueries == {UnitVec(LegacyDim, 1, -1), UnitVec(LegacyDim, 2, 3)}

\* Hand-crafted vectors of the analysis windows.
WindowQueries == {UnitVec(LegacyDim, 1, -1), UnitVec(LegacyDim, 2, 3)}

\* DRONE_CONFIDENCE_THRESHOLD in thousandths; SNR in thousandths of a dB.
BaseThresholds == {300, 550, 800, 950}

SnrValues == {-5000, 0, 9999, 10000, 19999, 20000, 29999, 30000}

\* Uploads: label, category and the hand-crafted features of the sample.
UploadInputs ==
    { [label |-> "quad", category |-> "drone", features |-> UnitVec(LegacyDim, 1, 2)],
      [label |-> "bus", category |-> "Noise", features |-> UnitVec(LegacyDim, 2, 1)] }

\* Ids of uploaded prototypes are generated, and differ from the ids on disk.
UploadId(n) == 100 + n

\* ----------------------------------------------------------------- Init
\* The variables the handlers read, none of them set.
EnvKeys == {"DRONE_CONFIDENCE_THRESHOLD", "USE_PANNS_EMBEDDINGS", "EMBEDDING_SERVICE_URL"}

UnsetEnv == [key \in EnvKeys |-> ""]

\* An AudioSample: the number of samples, the sample rate, and whether the
\* recording was persisted to a file.
NoAudio == [samples |-> 0, sampleRate |-> 0, persisted |-> FALSE]

IdleCls == [pc |-> "idle", features |-> <<>>, nWindows |-> 0, sliding |-> FALSE,
            windows |-> <<>>, predictions |-> <<>>, templatePreds |-> <<>>,
            snapTaken |-> FALSE, late |-> {},
            isDrone |-> FALSE, adjustedThreshold |-> 0, baseThreshold |-> 0, snrDb |-> 0,
            audio |-> NoAudio, usePANNS |-> FALSE, serviceURL |-> "", embedFailed |-> FALSE,
            windowSize |-> 0, hopSize |-> 0, start |-> 0, spans |-> <<>>]

IdleUp == [pc |-> "idle", data |-> <<>>, fd |-> 0, added |-> NoProto, ok |-> FALSE]

InitStore(files, ks, matchers) ==
    /\ \E file \in files, k \in ks :
         /\ dir = [p \in Paths |-> IF p = file.path THEN 1 ELSE 0]
         /\ inodes = [i \in Inodes |-> IF i = 1 THEN Marshal(file.prototypes) ELSE <<>>]
         /\ Serve(dir, inodes, k).ok
         /\ classifier = Serve(dir, inodes, k).c
         /\ envK = k
         /\ images = {Marshal(file.prototypes)}
    /\ server = "up"
    /\ templateMatcher \in matchers
    /\ cls = IdleCls
    /\ up = [u \in Uploaders |-> IdleUp]
    /\ nextId = 0
    /\ saved = {}

InitWith(files, ks, matchers) ==
    /\ InitStore(files, ks, matchers)
    /\ env = UnsetEnv
    /\ bootEnv = env

\* ------------------------------------------------- classification request
StoreIds(c) == {c.prototypes[i].id : i \in 1..Len(c.prototypes)}

\* Feature extraction: a PANNS embedding, or the hand-crafted vector; a
\* recording of 4 s or more with a hand-crafted vector is analysed in windows.
ClassifyStart(embedQ, legacyQ) ==
    /\ server = "up"
    /\ cls.pc = "idle"
    /\ \E features \in embedQ \cup legacyQ, n \in 0..MaxWindows :
         LET useSliding == n > 0 /\ Len(features) # EmbedDim
         IN /\ (Len(features) = EmbedDim => n = 0)
            /\ cls' = [cls EXCEPT !.pc = IF useSliding THEN "window" ELSE "predict",
                                  !.features = features,
                                  !.sliding = useSliding,
                                  !.nWindows = n]
    /\ UNCHANGED <<server, classifier, templateMatcher, dir, inodes, up, envK, env, bootEnv, nextId,
                   saved, images>>

\* One iteration of the window loop: extract the window's features and call
\* Classifier.Predict, which takes its own snapshot of the store.
ClassifyWindow(legacyQ) ==
    /\ server = "up"
    /\ cls.pc = "window"
    /\ Len(cls.windows) < cls.nWindows
    /\ \E w \in legacyQ :
       \E order \in Perms(NeighbourLabels(w, classifier)) :
         LET r == Predict(w, classifier, order)
             windows == Append(cls.windows, r.preds)
         IN cls' = [cls EXCEPT !.windows = IF r.err THEN <<>> ELSE windows,
                               !.snapTaken = TRUE,
                               !.pc = IF r.err THEN "predict"
                                      ELSE IF Len(windows) = cls.nWindows
                                      THEN "aggregate" ELSE "window"]
    /\ UNCHANGED <<server, classifier, templateMatcher, dir, inodes, up, envK, env, bootEnv, nextId,
                   saved, images>>

\* The end of PredictWithSlidingWindows and the handler's use of its result.
ClassifyAggregate ==
    /\ server = "up"
    /\ cls.pc = "aggregate"
    /\ \E order \in Perms({p.label : p \in Range(Flatten(cls.windows))}),
          reversed \in BOOLEAN :
         LET r == AggregateWindows(cls.windows, order, reversed)
             predictions == IF ~r.err /\ Len(r.preds) > 0 THEN r.preds ELSE <<>>
         IN cls' = [cls EXCEPT !.predictions = predictions,
                               !.windows = IF r.err THEN <<>> ELSE cls.windows,
                               !.pc = IF Len(predictions) = 0 THEN "predict" ELSE "respond"]
    /\ UNCHANGED <<server, classifier, templateMatcher, dir, inodes, up, envK, env, bootEnv, nextId,
                   saved, images>>

\* The single-pass Predict: the only analysis of a short or PANNS request,
\* the fallback of a sliding-window request that produced no predictions.
ClassifyPredict ==
    /\ server = "up"
    /\ cls.pc = "predict"
    /\ \E order \in Perms(NeighbourLabels(cls.features, classifier)) :
         LET r == Predict(cls.features, classifier, order)
         IN cls' = [cls EXCEPT !.predictions = r.preds,
                               !.snapTaken = TRUE,
                               !.pc = IF r.err THEN "failed" ELSE "respond"]
    /\ UNCHANGED <<server, classifier, templateMatcher, dir, inodes, up, envK, env, bootEnv, nextId,
                   saved, images>>

\* Template merge, threshold, decision and the ClassificationSummary.
ClassifyRespond(bases, snrs) ==
    /\ server = "up"
    /\ cls.pc = "respond"
    /\ LET templatePredictions == TemplatePredict(templateMatcher, cls.features)
           keys == {ToLower(p.label) :
                       p \in Range(cls.predictions) \cup Range(templatePredictions)}
       IN \E order \in IF Len(templatePredictions) > 0 THEN Perms(keys) ELSE {<<>>} :
            LET predictions == IF Len(templatePredictions) > 0
                               THEN MergePredictions(cls.predictions,
                                                     templatePredictions, order)
                               ELSE cls.predictions
            IN \E baseThreshold \in bases, snrDb \in snrs :
                 cls' = [cls EXCEPT
                    !.predictions = predictions,
                    !.templatePreds = templatePredictions,
                    !.baseThreshold = baseThreshold,
                    !.snrDb = snrDb,
                    !.adjustedThreshold =
                        IF snrDb # 0 THEN AdaptiveThreshold(baseThreshold, snrDb)
                        ELSE baseThreshold,
                    !.isDrone = DetermineDroneLikelyWithSNR(predictions, baseThreshold, snrDb),
                    !.pc = "done"]
    /\ UNCHANGED <<server, classifier, templateMatcher, dir, inodes, up, envK, env, bootEnv, nextId,
                   saved, images>>

\* The response (the summary, or the classifier error) has been written;
\* the handler returns.
ClassifyDone ==
    /\ cls.pc \in {"done", "failed"}
    /\ cls' = IdleCls
    /\ UNCHANGED <<server, classifier, templateMatcher, dir, inodes, up, envK, env, bootEnv, nextId,
                   saved, images>>

\* ------------------------------------- the environment, features, windows
\* utils.GetEnv: the variable's value, or the fallback when it is not set.
GetEnv(e, key, fallback) == IF e[key] = "" THEN fallback ELSE e[key]

\* strconv.ParseFloat on the strings the threshold variable takes here; the
\* value in thousandths.
ParseFloat(str) ==
    CASE str = "0.55" -> [ok |-> TRUE, v |-> 550]
      [] str = "0.8" -> [ok |-> TRUE, v |-> 800]
      [] OTHER -> [ok |-> FALSE, v |-> 0]

BaseThreshold(e) ==
    LET r == ParseFloat(GetEnv(e, "DRONE_CONFIDENCE_THRESHOLD", "0.55"))
    IN IF r.ok THEN r.v ELSE 550

UsePANNS(e) == GetEnv(e, "USE_PANNS_EMBEDDINGS", "true") = "true"

EmbeddingServiceURL(e) == GetEnv(e, "EMBEDDING_SERVICE_URL", "http://localhost:5002")

\* godotenv.Load: every variable of the file that the environment does not
\* set yet is set from the file.
DotEnvLoad(e, file) == [key \in EnvKeys |-> IF e[key] = "" THEN file[key] ELSE e[key]]

\* Durations are in thousandths of a second.
slidingWindowDurationSeconds == 3000
slidingWindowOverlapSeconds == 1500
minSlidingAnalysisDurationSec == 4000
defaultWindowSeconds == 3000
minWindowSize == 1024
minWindowSamples == 256

\* int(seconds * float64(sampleRate)) for seconds >= 0 that are exact in
\* binary, as every duration used here is.
SamplesIn(seconds, sampleRate) == (seconds * sampleRate) \div 1000

\* AudioSample.Duration >= seconds.
LastsAtLeast(audio, seconds) == audio.samples * 1000 >= seconds * audio.sampleRate

\* ExtractFeatureVector: the hand-crafted vector of the samples, here the
\* given one, or an error.
ExtractFeatureVector(audio, legacy) ==
    IF audio.samples = 0 \/ audio.sampleRate <= 0
    THEN [err |-> TRUE, features |-> <<>>]
    ELSE [err |-> FALSE, features |-> legacy]

UseSlidingWhenLong(audio, features) == LastsAtLeast(audio, minSlidingAnalysisDurationSec)

UseSliding(audio, features) ==
    LastsAtLeast(audio, minSlidingAnalysisDurationSec) /\ Len(features) # EmbedDim

WindowSize(n, sampleRate, windowSeconds) ==
    LET seconds == IF windowSeconds <= 0 THEN defaultWindowSeconds ELSE windowSeconds
        w0 == SamplesIn(seconds, sampleRate)
        w1 == IF w0 <= 0 THEN sampleRate * 3 ELSE w0
        w2 == IF w1 > n THEN n ELSE w1
    IN IF w2 < minWindowSize THEN (IF minWindowSize > n THEN n ELSE minWindowSize) ELSE w2

HopSizeUnguarded(windowSize, sampleRate, overlapSeconds) ==
    windowSize - SamplesIn(IF overlapSeconds < 0 THEN 0 ELSE overlapSeconds, sampleRate)

HopSize(windowSize, sampleRate, overlapSeconds) ==
    LET seconds == IF overlapSeconds < 0 THEN 0 ELSE overlapSeconds
        h0 == windowSize - SamplesIn(seconds, sampleRate)
        h1 == IF h0 <= 0
              THEN (IF windowSize \div 2 = 0 THEN 1 ELSE windowSize \div 2)
              ELSE h0
    IN IF h1 > windowSize THEN windowSize ELSE h1

\* The request fails when the embedding service does.
HandlerFeaturesNoFallback(called, serviceUp, embedding, extracted) ==
    IF called
    THEN IF serviceUp THEN [err |-> FALSE, features |-> embedding]
         ELSE [err |-> TRUE, features |-> <<>>]
    ELSE extracted

\* The features of a request: the embedding when the service was called and
\* answered, the result of ExtractFeatureVector otherwise.
HandlerFeatures(called, serviceUp, embedding, extracted) ==
    IF called /\ serviceUp THEN [err |-> FALSE, features |-> embedding] ELSE extracted

\* The handler's feature extraction: the embedding service when
\* USE_PANNS_EMBEDDINGS is "true" and the recording was persisted, the
\* hand-crafted vector otherwise and when the service call fails.
ClassifyExtract(embedQ, legacyQ, audios) ==
    /\ server = "up"
    /\ cls.pc = "idle"
    /\ \E audio \in audios, serviceUp \in BOOLEAN, embedding \in embedQ, legacy \in legacyQ :
         LET usePANNS == UsePANNS(env)
             called == usePANNS /\ audio.persisted
             got == HandlerFeatures(called, serviceUp, embedding,
                                    ExtractFeatureVector(audio, legacy))
             features == got.features
             failed == got.err
             useSliding == ~failed /\ UseSliding(audio, features)
         IN cls' = [cls EXCEPT !.pc = IF failed THEN "failed"
                                      ELSE IF useSliding THEN "sliding" ELSE "predict",
                               !.audio = audio,
                               !.usePANNS = usePANNS,
                               !.serviceURL = IF called THEN EmbeddingServiceURL(env) ELSE "",
                               !.embedFailed = called /\ ~serviceUp,
                               !.features = features,
                               !.sliding = useSliding]
    /\ UNCHANGED <<server, classifier, templateMatcher, dir, inodes, up, envK, env, bootEnv,
                   nextId, saved, images>>

\* A call of PredictWithSlidingWindows on samples of any length.
SlidingCall(audios, legacyQ) ==
    /\ server = "up"
    /\ cls.pc = "idle"
    /\ \E audio \in audios, legacy \in legacyQ :
         cls' = [cls EXCEPT !.pc = "sliding", !.audio = audio, !.features = legacy,
                            !.sliding = TRUE]
    /\ UNCHANGED <<server, classifier, templateMatcher, dir, inodes, up, envK, env, bootEnv,
                   nextId, saved, images>>

\* The start of PredictWithSlidingWindows: the window and the hop in samples.
SlidingStart(windowings) ==
    /\ server = "up"
    /\ cls.pc = "sliding"
    /\ \E windowing \in windowings :
         LET n == cls.audio.samples
             sampleRate == cls.audio.sampleRate
             windowSize == WindowSize(n, sampleRate, windowing.windowSeconds)
         IN cls' = IF n = 0 \/ sampleRate <= 0
                   THEN [cls EXCEPT !.pc = "predict"]
                   ELSE [cls EXCEPT !.pc = "window",
                                    !.windowSize = windowSize,
                                    !.hopSize = HopSize(windowSize, sampleRate,
                                                        windowing.overlapSeconds),
                                    !.start = 0]
    /\ UNCHANGED <<server, classifier, templateMatcher, dir, inodes, up, envK, env, bootEnv,
                   nextId, saved, images>>

\* One iteration of the window loop on the samples: the window is cut off at
\* the end of the input and analysed unless it is shorter than 256 samples.
SlidingWindowStep(legacyQ) ==
    /\ server = "up"
    /\ cls.pc = "window"
    /\ cls.windowSize > 0
    /\ LET n == cls.audio.samples
           end == IMin(cls.start + cls.windowSize, n)
       IN IF end - cls.start < minWindowSamples
          THEN cls' = [cls EXCEPT !.pc = IF Len(cls.windows) = 0 THEN "predict"
                                         ELSE "aggregate"]
          ELSE \E w \in legacyQ :
               \E order \in Perms(NeighbourLabels(w, classifier)) :
                 LET r == Predict(w, classifier, order)
                     next == cls.start + cls.hopSize
                     last == end = n \/ next >= n
                     span == [index |-> Len(cls.spans), start |-> cls.start, end |-> end]
                 IN cls' = IF r.err
                           THEN [cls EXCEPT !.windows = <<>>, !.spans = <<>>,
                                            !.snapTaken = TRUE, !.pc = "predict"]
                           ELSE [cls EXCEPT !.windows = Append(cls.windows, r.preds),
                                            !.spans = Append(cls.spans, span),
                                            !.snapTaken = TRUE,
                                            !.start = IF last THEN cls.start ELSE next,
                                            !.pc = IF last THEN "aggregate" ELSE "window"]
    /\ UNCHANGED <<server, classifier, templateMatcher, dir, inodes, up, envK, env, bootEnv,
                   nextId, saved, images>>

\* Some component of the process loads a .env file while the server runs.
LoadDotEnv(files) ==
    /\ server = "up"
    /\ \E file \in files :
         /\ env' = DotEnvLoad(env, file)
         /\ env' # env
    /\ UNCHANGED <<server, classifier, templateMatcher, dir, inodes, cls, up, envK, bootEnv,
                   nextId, saved, images>>

\* --------------------------------------------------------- upload request
Referenced(d, u2) == {d[p] : p \in Paths} \cup {u2[u].fd : u \in Uploaders}

\* Contents of the inodes still reachable by a path or an open descriptor.
Collect(f, d, u2) == [i \in Inodes |-> IF i \in Referenced(d, u2) THEN f[i] ELSE <<>>]

\* BuildPrototypeFromPath on the uploaded sample, then AddPrototype.  A new
\* request is served in the lowest free slot.
UploadAdd(u) ==
    /\ server = "up"
    /\ up[u].pc = "idle"
    /\ \A v \in Uploaders : v < u => up[v].pc # "idle"
    /\ nextId < MaxUploads
    /\ \E in \in UploadInputs :
         LET proto == Proto(UploadId(nextId + 1), in.label, in.category, in.features)
             c == AddPrototype(classifier, proto)
         IN /\ classifier' = c
            /\ up' = [up EXCEPT ![u] = [IdleUp EXCEPT !.pc = "snapshot",
                                           !.added = c.prototypes[Len(c.prototypes)]]]
            /\ cls' = IF cls.snapTaken /\ cls.pc # "done"
                      THEN [cls EXCEPT !.late = cls.late \cup {proto.id}] ELSE cls
    /\ nextId' = nextId + 1
    /\ UNCHANGED <<server, templateMatcher, dir, inodes, envK, env, bootEnv, saved, images>>

\* SavePrototypesToFile: snapshot and json.MarshalIndent.
SaveSnapshot(u) ==
    /\ server = "up"
    /\ up[u].pc = "snapshot"
    /\ up' = [up EXCEPT ![u].pc = "open", ![u].data = Marshal(classifier.prototypes)]
    /\ images' = images \cup {Marshal(classifier.prototypes)}
    /\ UNCHANGED <<server, classifier, templateMatcher, dir, inodes, cls, envK, env, bootEnv, nextId, saved>>

\* os.WriteFile, first half: open(tempPath, O_WRONLY|O_CREATE|O_TRUNC).
SaveOpen(u) ==
    /\ server = "up"
    /\ up[u].pc = "open"
    /\ LET tempPath == TempPath(classifier.modelPath)
           inode == IF dir[tempPath] # 0 THEN dir[tempPath]
                    ELSE CHOOSE i \in Inodes : i \notin Referenced(dir, up)
       IN /\ dir' = [dir EXCEPT ![tempPath] = inode]
          /\ inodes' = [inodes EXCEPT ![inode] = <<>>]
          /\ up' = [up EXCEPT ![u].pc = "write", ![u].fd = inode]
    /\ UNCHANGED <<server, classifier, templateMatcher, cls, envK, env, bootEnv, nextId, saved, images>>

\* os.WriteFile, second half: write the bytes at offset 0 and close.
SaveWrite(u) ==
    /\ server = "up"
    /\ up[u].pc = "write"
    /\ LET u2 == [up EXCEPT ![u].pc = "rename", ![u].fd = 0]
       IN /\ up' = u2
          /\ inodes' = Collect([inodes EXCEPT ![up[u].fd] = Overlay(inodes[up[u].fd], up[u].data)],
                               dir, u2)
    /\ UNCHANGED <<server, classifier, templateMatcher, dir, cls, envK, env, bootEnv, nextId, saved, images>>

\* os.Rename(tempPath, modelPath); on failure os.Remove(tempPath) and the
\* error is returned (the handler only logs it).
SaveRename(u) ==
    /\ server = "up"
    /\ up[u].pc = "rename"
    /\ LET tempPath == TempPath(classifier.modelPath)
       IN IF dir[tempPath] = 0
          THEN /\ up' = [up EXCEPT ![u].pc = "stats", ![u].ok = FALSE]
               /\ UNCHANGED <<dir, inodes>>
          ELSE LET d == [dir EXCEPT ![classifier.modelPath] = dir[tempPath], ![tempPath] = 0]
               IN /\ dir' = d
                  /\ inodes' = Collect(inodes, d, up)
                  /\ up' = [up EXCEPT ![u].pc = "flag"]
    /\ UNCHANGED <<server, classifier, templateMatcher, cls, envK, env, bootEnv, nextId, saved, images>>

\* The save succeeded: usingExample is cleared and nil is returned.
SaveFlag(u) ==
    /\ server = "up"
    /\ up[u].pc = "flag"
    /\ classifier' = [classifier EXCEPT !.usingExample = FALSE]
    /\ up' = [up EXCEPT ![u].pc = "stats", ![u].ok = TRUE]
    /\ saved' = saved \cup {[id |-> up[u].added.id, label |-> up[u].added.label]}
    /\ UNCHANGED <<server, templateMatcher, dir, inodes, cls, envK, env, bootEnv, nextId, images>>

\* Bug: a failed save takes the prototype it could not persist out of the
\* store again.
SaveFailsRollsBack(u) ==
    /\ server = "up"
    /\ up[u].pc \in {"open", "write", "rename"}
    /\ classifier' = [classifier EXCEPT !.prototypes =
                         SelectSeq(classifier.prototypes, LAMBDA q : q.id # up[u].added.id)]
    /\ up' = [up EXCEPT ![u].pc = "stats", ![u].ok = FALSE, ![u].fd = 0]
    /\ UNCHANGED <<server, templateMatcher, dir, inodes, cls, envK, env, bootEnv, nextId, saved, images>>

\* The operating system refuses a step of the save: os.WriteFile fails to
\* open the temporary file, or fails after writing only a part of the bytes,
\* or os.Rename fails and the temporary file is removed.  The error is
\* returned; the handler logs it and goes on to Stats.
SaveFails(u) ==
    /\ server = "up"
    /\ up[u].pc \in {"open", "write", "rename"}
    /\ LET u2 == [up EXCEPT ![u].pc = "stats", ![u].ok = FALSE, ![u].fd = 0]
           tempPath == TempPath(classifier.modelPath)
       IN /\ up' = u2
          /\ CASE up[u].pc = "open" -> UNCHANGED <<dir, inodes>>
               [] up[u].pc = "write" ->
                    /\ UNCHANGED dir
                    /\ \E n \in 0..(Len(up[u].data) - 1) :
                         inodes' = Collect([inodes EXCEPT ![up[u].fd] =
                                               Overlay(inodes[up[u].fd],
                                                       SubSeq(up[u].data, 1, n))],
                                           dir, u2)
               [] up[u].pc = "rename" ->
                    LET d == [dir EXCEPT ![tempPath] = 0]
                    IN /\ dir' = d
                       /\ inodes' = Collect(inodes, d, u2)
    /\ UNCHANGED <<server, classifier, templateMatcher, cls, envK, env, bootEnv, nextId, saved, images>>

\* Stats and the upload response.
UploadRespond(u) ==
    /\ server = "up"
    /\ up[u].pc = "stats"
    /\ up' = [up EXCEPT ![u] = IdleUp]
    /\ UNCHANGED <<server, classifier, templateMatcher, dir, inodes, cls, envK, env, bootEnv, nextId,
                   saved, images>>

\* ----------------------------------------------------------------- restart
\* The process is stopped while no request is in flight and started again:
\* serve loads the model file, and exits when the load fails.
Restart ==
    /\ cls.pc = "idle"
    /\ \A u \in Uploaders : up[u].pc = "idle"
    /\ LET r == Serve(dir, inodes, envK)
       IN /\ server' = IF r.ok THEN "up" ELSE "down"
          /\ classifier' = IF r.ok THEN r.c ELSE classifier
    /\ bootEnv' = env
    /\ UNCHANGED <<templateMatcher, dir, inodes, cls, up, envK, env, nextId, saved, images>>

\* ------------------------------------------------------- specifications
\* One classification request at a time against every model file and
\* configuration: the request pipeline in full.
InitClassify ==
    InitWith({[path |-> ModelPathEnv, prototypes |-> ps] : ps \in SubLists(Catalogue)},
             1..MaxK, Matchers)

NextClassify ==
    \/ ClassifyStart(EmbedQueries, LegacyQueries)
    \/ ClassifyWindow(WindowQueries)
    \/ ClassifyAggregate
    \/ ClassifyPredict
    \/ ClassifyRespond({550}, {0, 9999})
    \/ ClassifyDone

SpecClassify == InitClassify /\ [][NextClassify]_vars

\* The server under concurrent requests: one classification and the uploads
\* interleave step by step, and the process may be restarted.
Init ==
    InitWith({[path |-> ModelPathEnv, prototypes |-> SubSeq(Catalogue, 1, 1)],
              [path |-> FallbackPath(ModelPathEnv), prototypes |-> SubSeq(Catalogue, 3, 3)]},
             {MaxK}, {NoMatcher})

Next ==
    \/ ClassifyStart({}, {UnitVec(LegacyDim, 1, 1)})
    \/ ClassifyWindow({UnitVec(LegacyDim, 1, 1)})
    \/ ClassifyAggregate
    \/ ClassifyPredict
    \/ ClassifyRespond({550}, {0})
    \/ ClassifyDone
    \/ \E u \in Uploaders :
         \/ UploadAdd(u)
         \/ SaveSnapshot(u)
         \/ SaveOpen(u)
         \/ SaveWrite(u)
         \/ SaveRename(u)
         \/ SaveFlag(u)
         \/ UploadRespond(u)
    \/ Restart

Spec == Init /\ [][Next]_vars

\* The decision steps alone, over every base threshold and SNR.
ThresholdQueries == {UnitVec(EmbedDim, a, m) : a \in {1, 2}, m \in {1, -1}}

InitThreshold ==
    InitWith({[path |-> ModelPathEnv, prototypes |-> SubSeq(Catalogue, 2, 3)]},
             {MaxK}, {NoMatcher})

NextThreshold ==
    \/ ClassifyStart(ThresholdQueries, {})
    \/ ClassifyPredict
    \/ ClassifyRespond(BaseThresholds, SnrValues)
    \/ ClassifyDone

SpecThreshold == InitThreshold /\ [][NextThreshold]_vars

\* Uploads on a disk that may refuse any step of a save.
NextPersist ==
    \E u \in Uploaders :
       \/ UploadAdd(u)
       \/ SaveSnapshot(u)
       \/ SaveOpen(u)
       \/ SaveWrite(u)
       \/ SaveRename(u)
       \/ SaveFlag(u)
       \/ SaveFails(u)
       \/ UploadRespond(u)

SpecPersist == Init /\ [][NextPersist]_vars

\* Prototype files of hand-crafted feature vectors.
LegacyCatalogue ==
    << Proto(5, "quad", "drone", UnitVec(LegacyDim, 1, 1)),
       Proto(6, "bus", "noise", UnitVec(LegacyDim, 2, 1)) >>

\* A prototype file that is not small.
LargeStore == Mat([i \in 1..SmallStoreCount |->
                     Proto(10 + i, "quad", "drone", UnitVec(EmbedDim, 1, 1))])

LoadFiles == SubLists(Catalogue) \cup (SubLists(LegacyCatalogue) \ {<<>>}) \cup {LargeStore}

\* The process before serve has run: no classifier yet.
NoClassifier == [prototypes |-> <<>>, k |-> 0, usingExample |-> FALSE, modelPath |-> <<>>,
                 labelCategory |-> <<>>, featureScaler |-> "nil"]

\* Startup: a prototype file at the model path or at its .example sibling,
\* and DRONE_MODEL_K.
InitLoad ==
    /\ \E prototypes \in LoadFiles, path \in {ModelPathEnv, FallbackPath(ModelPathEnv)} :
         /\ dir = [p \in Paths |-> IF p = path THEN 1 ELSE 0]
         /\ inodes = [i \in Inodes |-> IF i = 1 THEN Marshal(prototypes) ELSE <<>>]
         /\ images = {Marshal(prototypes)}
    /\ envK \in 1..(MaxK + 2)
    /\ env = UnsetEnv
    /\ bootEnv = env
    /\ server = "stopped"
    /\ classifier = NoClassifier
    /\ templateMatcher = NoMatcher
    /\ cls = IdleCls
    /\ up = [u \in Uploaders |-> IdleUp]
    /\ nextId = 0
    /\ saved = {}

NextLoad == Restart

SpecLoad == InitLoad /\ [][NextLoad]_vars

\* A model file whose labels include two that differ only in letter case.
MergeCatalogue ==
    << Proto(7, "quad", "drone", UnitVec(EmbedDim, 2, 1)),
       Proto(8, "Quad", "drone", UnitVec(EmbedDim, 1, 1)),
       Proto(9, "bus", "noise", UnitVec(EmbedDim, 3, 1)) >>

MergeQueries == {UnitVec(EmbedDim, a, 1) : a \in 1..3}

\* Single-pass requests on embeddings, with and without a template matcher.
InitMerge ==
    InitWith({[path |-> ModelPathEnv, prototypes |-> ps] : ps \in SubLists(MergeCatalogue)},
             1..MaxK, Matchers)

NextMerge ==
    \/ ClassifyStart(MergeQueries, {})
    \/ ClassifyPredict
    \/ ClassifyRespond({550}, {0})
    \/ ClassifyDone

SpecMerge == InitMerge /\ [][NextMerge]_vars

\* Recordings of 0 s, 2 s, 4 s and 6 s at 8 kHz.
AudioRate == 8000

Audios == {[samples |-> seconds * AudioRate, sampleRate |-> AudioRate, persisted |-> p] :
              seconds \in {0, 2, 4, 6}, p \in BOOLEAN}

Environments ==
    {[DRONE_CONFIDENCE_THRESHOLD |-> t, USE_PANNS_EMBEDDINGS |-> u, EMBEDDING_SERVICE_URL |-> ""] :
        t \in {"", "0.8"}, u \in {"", "false"}}

DotEnvFiles ==
    {[DRONE_CONFIDENCE_THRESHOLD |-> t, USE_PANNS_EMBEDDINGS |-> u,
      EMBEDDING_SERVICE_URL |-> "http://panns:5002"] :
        t \in {"0.8", "high"}, u \in {"false", "true"}}

HandlerWindowing == [windowSeconds |-> slidingWindowDurationSeconds,
                     overlapSeconds |-> slidingWindowOverlapSeconds]

\* Classification requests on recordings, in an environment that a .env
\* file loaded at run time may extend.
InitRequest ==
    /\ InitStore({[path |-> ModelPathEnv, prototypes |-> SubSeq(Catalogue, 1, 3)]},
                 {MaxK}, {NoMatcher})
    /\ env \in Environments
    /\ bootEnv = env

NextRequest ==
    \/ ClassifyExtract({UnitVec(EmbedDim, 1, 1)}, {UnitVec(LegacyDim, 1, 1)}, Audios)
    \/ SlidingStart({HandlerWindowing})
    \/ SlidingWindowStep({UnitVec(LegacyDim, 1, 1)})
    \/ ClassifyAggregate
    \/ ClassifyPredict
    \/ ClassifyRespond({BaseThreshold(env)}, {0})
    \/ ClassifyDone
    \/ LoadDotEnv(DotEnvFiles)

SpecRequest == InitRequest /\ [][NextRequest]_vars

\* PredictWithSlidingWindows on short inputs with every kind of window and
\* overlap: none, negative, shorter than the minimum, longer than the
\* input, an overlap of the window's length or more.
WindowAudios == {[samples |-> n, sampleRate |-> AudioRate, persisted |-> FALSE] :
                    n \in {1, 100, 1000, 1500, 2000, 3000}}

Windowings == {[windowSeconds |-> w, overlapSeconds |-> o] :
                  w \in {-1000, 0, 125, 250, 500}, o \in {-500, 0, 250, 1000}}

InitWindows ==
    InitWith({[path |-> ModelPathEnv, prototypes |-> SubSeq(Catalogue, 1, 3)]},
             {MaxK}, {NoMatcher})

NextWindows ==
    \/ SlidingCall(WindowAudios, {UnitVec(LegacyDim, 1, 1)})
    \/ SlidingStart(Windowings)
    \/ SlidingWindowStep(WindowQueries)
    \/ ClassifyAggregate
    \/ ClassifyPredict
    \/ ClassifyRespond({550}, {0})
    \/ ClassifyDone

SpecWindows == InitWindows /\ [][NextWindows]_vars

\* A store of ten prototypes of one label, and a neighbour count above the
\* number of top prototypes a prediction is said to carry.
InitDense ==
    InitWith({[path |-> ModelPathEnv, prototypes |-> LargeStore]},
             1..(TopPrototypeLimit + 1), {NoMatcher})

NextDense ==
    \/ ClassifyStart(EmbedQueries, LegacyQueries)
    \/ ClassifyWindow(WindowQueries)
    \/ ClassifyAggregate
    \/ ClassifyPredict
    \/ ClassifyRespond({550}, {0})
    \/ ClassifyDone

SpecDense == InitDense /\ [][NextDense]_vars

\* Uploads and their saves interleaved with single-pass classifications of
\* a short recording, in a process that is not restarted.
ShortAudio == [samples |-> 2 * AudioRate, sampleRate |-> AudioRate, persisted |-> FALSE]

NextGrow ==
    \/ ClassifyExtract({UnitVec(EmbedDim, 1, 1)}, {UnitVec(LegacyDim, 1, 1)}, {ShortAudio})
    \/ ClassifyPredict
    \/ ClassifyRespond({550}, {0})
    \/ ClassifyDone
    \/ \E u \in Uploaders :
         \/ UploadAdd(u)
         \/ SaveSnapshot(u)
         \/ SaveOpen(u)
         \/ SaveWrite(u)
         \/ SaveRename(u)
         \/ SaveFlag(u)
         \/ UploadRespond(u)

SpecGrow == Init /\ [][NextGrow]_vars

\* ------------------------------------------------------------- properties
Answered == cls.pc = "done"

Top == cls.predictions[1]

AtLeast(confidence, thousandths) == RLeq(RMilli(thousandths), confidence)

Band(snrDb) == IF snrDb < 10000 THEN 150
               ELSE IF snrDb >= 10000 /\ snrDb < 20000 THEN 100
               ELSE IF snrDb >= 20000 /\ snrDb < 30000 THEN 50
               ELSE 0

Merged == Answered /\ Len(cls.templatePreds) > 0

CoreLists ==
    Range(cls.windows) \cup (IF Merged \/ cls.pc \in {"idle", "window", "aggregate", "predict"}
                             THEN {} ELSE {cls.predictions})

ExactLists == (IF Answered THEN {cls.templatePreds} ELSE {})
              \cup (IF Merged THEN {cls.predictions} ELSE {})

InOrder(p, q) ==
    \/ RLess(q.confidence, p.confidence)
    \/ REq(p.confidence, q.confidence) /\ RLeq(p.averageDist, q.averageDist)

InOrderWithin(p, q) ==
    IF RLess(REps, RAbs(RSub(p.confidence, q.confidence)))
    THEN RLess(q.confidence, p.confidence)
    ELSE RLeq(p.averageDist, q.averageDist)

Sorted(list) == \A i \in 1..(Len(list) - 1) : InOrder(list[i], list[i + 1])

SortedWithin(list) == \A i \in 1..(Len(list) - 1) : InOrderWithin(list[i], list[i + 1])

ConfidenceSum(list) == RSumSeq(Mat([i \in 1..Len(list) |-> list[i].confidence]))

\* 1e-6.
RMicro == [n |-> <<0, 1000>>, d |-> EmptyBag]

SumsToOne(list) ==
    /\ RLeq(RAbs(RSub(ConfidenceSum(list), ROne)), RMicro)
    /\ \A i \in 1..Len(list) :
         RSign(list[i].confidence) >= 0 /\ RLeq(list[i].confidence, ROne)

\* C4 as stated: the confidences of every non-empty list returned by Predict
\* and by PredictWithSlidingWindows, and of the predictions of the
\* ClassificationSummary, sum to 1.0 within 1e-6 and lie in [0, 1].
C4_AsStated ==
    /\ \A list \in CoreLists : Len(list) > 0 => SumsToOne(list)
    /\ Answered /\ Len(cls.predictions) > 0 => SumsToOne(cls.predictions)

\* C4, amended: the confidences of every non-empty list returned by Predict
\* and by PredictWithSlidingWindows sum to 1.0 within 1e-6 and lie in
\* [0, 1]; so do the predictions of the ClassificationSummary when no
\* template prediction was merged into them.
C4_Normalised ==
    /\ \A list \in CoreLists : Len(list) > 0 => SumsToOne(list)
    /\ Answered /\ ~Merged /\ Len(cls.predictions) > 0 => SumsToOne(cls.predictions)

\* C4's case: a summary without template predictions whose list of two
\* labels was aggregated from more than one window.
C4_Witness ==
    /\ Answered /\ ~Merged
    /\ Len(cls.windows) > 1
    /\ Len(cls.predictions) > 1
    /\ SumsToOne(cls.predictions)

\* A single-pass request whose Predict has returned: cls.predictions is
\* Predict(cls.features) on the store as it is.
SinglePass == cls.pc = "respond" /\ ~cls.sliding

Store == classifier.prototypes

Cosine(i) == cosineSimilarity(cls.features, Store[i].features)

Of(label) == {i \in 1..Len(Store) : Store[i].label = label}

RECURSIVE InverseDistanceSum(_)
InverseDistanceSum(S) ==
    IF S = {} THEN RZero
    ELSE LET i == CHOOSE x \in S : TRUE
         IN RAdd(InverseDistanceSum(S \ {i}),
                 RDiv(ROne, RAdd(RInt(1 - Cosine(i)), REps)))

Counted == UNION {{sc.id : sc \in Range(p.topPrototypes)} : p \in Range(cls.predictions)}

C7_EmptyStore ==
    /\ cls.pc # "failed"
    /\ Len(Store) = 0 /\ cls.pc \in {"respond", "done"} /\ Len(cls.templatePreds) = 0
         => Len(cls.predictions) = 0 /\ ~cls.isDrone
    /\ \A baseThreshold \in BaseThresholds, snrDb \in SnrValues :
         ~DetermineDroneLikelyWithSNR(<<>>, baseThreshold, snrDb)

\* C7's case: a request answered from an empty store.
C7_Witness ==
    /\ Answered
    /\ Len(Store) = 0
    /\ Len(cls.features) > 0
    /\ Len(cls.predictions) = 0
    /\ ~cls.isDrone

\* Ids of the prototypes a response reports: the evidence of its predictions
\* and of its per-window predictions.
Reported ==
    UNION {{sc.id : sc \in Range(p.topPrototypes)} :
              p \in Range(cls.predictions) \cup Range(Flatten(cls.windows))}

\* C8: a classify request observes a single store state: no prediction and no
\* per-window prediction of its response reflects a prototype that was added
\* after the request took its first snapshot.
C8_SingleSnapshot == Answered => cls.late \cap Reported = {}

\* C9: at every moment the model file is absent or holds the complete JSON
\* array written by one save call.
C9_ModelFileComplete ==
    \/ dir[classifier.modelPath] = 0
    \/ inodes[dir[classifier.modelPath]] \in images

\* C10: once an upload has added a prototype and its save has returned
\* success, a restart loads the model file and the loaded store holds a
\* prototype with that id and label.
C10_SurvivesRestart ==
    [][Restart =>
         /\ server' = "up"
         /\ \A s \in saved :
              \E i \in 1..Len(classifier'.prototypes) :
                 /\ classifier'.prototypes[i].id = s.id
                 /\ classifier'.prototypes[i].label = s.label]_vars

\* The model file holds what SavePrototypesToFile writes for the store as it
\* is now.
SavedAsIs ==
    /\ dir[classifier.modelPath] # 0
    /\ inodes[dir[classifier.modelPath]] = Marshal(classifier.prototypes)

\* C11: loading the file a save of the store has written yields a store with
\* the same set of prototypes, for every store reached by a load and any
\* number of AddPrototype calls.
C11_SaveLoadRoundTrip ==
    SavedAsIs =>
        LET loaded == NewClassifierFromFile(dir, inodes, classifier.modelPath, classifier.k)
        IN /\ loaded.ok
           /\ Range(loaded.c.prototypes) = Range(classifier.prototypes)

SquaredNorm(v) == SumTo(v, v, Len(v), 1)

\* C12: after the load and after any AddPrototype calls every prototype of
\* the store has a feature vector of Euclidean norm 1.
C12_UnitNorm ==
    server = "up" => \A i \in 1..Len(Store) : SquaredNorm(Store[i].features) = 1

\* C13: all prototypes of the store have the same feature dimension (an
\* AddPrototype of another dimension is rejected and leaves the store as it
\* was).
C13_UniformDimension ==
    \A i, j \in 1..Len(Store) : Len(Store[i].features) = Len(Store[j].features)

\* C14: Predict does not return predictions for a feature vector whose length
\* differs from the dimension of the stored prototypes: a request whose
\* single-pass Predict returned without error has a vector of the store's
\* dimension.
C14_DimensionMismatch ==
    SinglePass =>
        \A i \in 1..Len(Store) : Len(Store[i].features) = Len(cls.features)

\* C15: when a save fails while writing the temporary file or renaming it,
\* the error is returned and the store in memory is what it was before the
\* call; the request still reports the prototype it added, which stays in the
\* store.
C15_FailedSaveKeepsStore ==
    [][\A u \in Uploaders :
          up[u].pc \in {"open", "write", "rename"} /\ up'[u].pc = "stats"
          => /\ classifier' = classifier
             /\ ~up'[u].ok
             /\ up'[u].added = up[u].added
             /\ up'[u].added \in Range(classifier'.prototypes)]_vars

\* C15's case: the save of the first upload failed, and the save of the
\* second upload succeeded and wrote both prototypes to the model file.
C15_Witness ==
    /\ \A u \in Uploaders : up[u].pc = "idle"
    /\ {s.id : s \in saved} = {UploadId(2)}
    /\ SavedAsIs
    /\ {UploadId(1), UploadId(2)} \subseteq StoreIds(classifier)

\* The prototypes of the file serve reads: the model file, or its .example
\* sibling when the model file is missing.
FilePrototypes ==
    LET path == IF dir[ModelPathEnv] # 0 THEN ModelPathEnv ELSE FallbackPath(ModelPathEnv)
    IN Unmarshal(inodes[dir[path]]).prototypes

UniformFile(d) ==
    \A i \in 1..Len(FilePrototypes) :
       FilePrototypes[i].label # "" /\ Len(FilePrototypes[i].features) = d

\* C16: a prototype file whose prototypes all have a label and share one
\* feature dimension, that of the hand-crafted vectors or that of the
\* embeddings, is loaded, and the store has a feature scaler exactly when the
\* dimension is not that of the embeddings.
C16_LoadsBothDimensions ==
    [][\A d \in {LegacyDim, EmbedDim} :
          Restart /\ Len(FilePrototypes) > 0 /\ UniformFile(d)
          => /\ server' = "up"
             /\ classifier'.featureScaler # "nil" <=> d # EmbedDim]_vars

\* C17: a store loaded from the .example sibling of a missing model file
\* reports using_example = true, and a store loaded from the model file
\* reports false.
C17_UsingExample ==
    [][Restart /\ server' = "up" =>
          (classifier'.usingExample <=> dir[ModelPathEnv] = 0)]_vars

\* C20: after startup with DRONE_MODEL_K = k0 >= 1 on a file of n >= 1
\* prototypes, k is min(k0, n), lowered to 3 when n < 10 and that value
\* exceeds 3; so k <= n, and k <= 3 when n < 10.
C20_AdaptiveK ==
    server = "up" /\ Len(Store) >= 1 =>
        LET n == Len(Store)
            capped == IMin(envK, n)
        IN /\ classifier.k = IF n < 10 /\ capped > 3 THEN 3 ELSE capped
           /\ classifier.k <= n
           /\ n < 10 => classifier.k <= 3

\* C20's case: a small store with more than 3 prototypes and a requested k
\* above 3.
C20_Witness ==
    /\ server = "up"
    /\ Len(Store) > 3 /\ Len(Store) < 10
    /\ envK > 3
    /\ classifier.k = 3

\* The step in which the handler merges the template predictions into the
\* predictions of the classifier.
MergeStep == cls.pc = "respond" /\ cls'.pc = "done" /\ Len(cls'.templatePreds) > 0

\* C18: MergePredictions(base, additions) returns exactly one prediction per
\* case-insensitive label of base and additions, its confidence the largest
\* among the input predictions of that label, sorted by descending confidence
\* and then ascending average distance.
C18_MergeKeepsMaximum ==
    [][MergeStep =>
         LET inputs == Range(cls.predictions) \cup Range(cls'.templatePreds)
             merged == cls'.predictions
         IN /\ \A p \in inputs :
                 Cardinality({i \in 1..Len(merged) :
                                 ToLower(merged[i].label) = ToLower(p.label)}) = 1
            /\ \A i \in 1..Len(merged) :
                 /\ merged[i] \in inputs
                 /\ \A p \in inputs :
                      ToLower(p.label) = ToLower(merged[i].label)
                      => RLeq(p.confidence, merged[i].confidence)
            /\ Sorted(merged)]_vars

\* C19: for the same query and the same store two runs of Predict return the
\* same list, and for the same lists two runs of MergePredictions do:
\* whatever order a run iterates its maps in, the list is the one this run
\* returned.
C19_Deterministic ==
    [][/\ cls.pc = "predict" /\ cls'.pc = "respond" =>
            \A order \in Perms(NeighbourLabels(cls.features, classifier)) :
               Predict(cls.features, classifier, order).preds = cls'.predictions
       /\ MergeStep =>
            \A order \in Perms({ToLower(p.label) :
                                  p \in Range(cls.predictions) \cup Range(cls'.templatePreds)}) :
               MergePredictions(cls.predictions, cls'.templatePreds, order)
                  = cls'.predictions]_vars

\* The store holds PANNS embeddings only.
EmbeddingStore == \A i \in 1..Len(Store) : Len(Store[i].features) = EmbedDim

FourSeconds == cls.audio.samples >= 4 * cls.audio.sampleRate

\* C21 as stated: a request against a store of 2048-dimensional prototypes
\* is never analysed in sliding windows.
C21_AsStated == EmbeddingStore => cls.pc \notin {"sliding", "window", "aggregate"}

\* C21: sliding-window analysis runs for a classify request exactly when the
\* recording lasts 4 s or more and the request's feature vector is the
\* hand-crafted one, whatever the store holds: a request of less than 4 s, and
\* a request with a 2048-dimensional embedding, makes no sliding-window call
\* and answers with an empty windows list and the single-pass prediction.
C21_SlidingWhenLongAndLegacy ==
    /\ cls.pc \notin {"idle", "failed"} =>
          (cls.sliding <=> FourSeconds /\ Len(cls.features) = LegacyDim)
    /\ cls.pc \in {"sliding", "window", "aggregate"} => cls.sliding
    /\ cls.pc = "respond" /\ ~cls.sliding =>
          /\ cls.windows = <<>>
          /\ cls.spans = <<>>
          /\ \E order \in Perms(NeighbourLabels(cls.features, classifier)) :
                cls.predictions = Predict(cls.features, classifier, order).preds

\* A recording of 4 s or more with a hand-crafted vector has been analysed
\* in windows against a store of embeddings.
C21_Witness ==
    /\ EmbeddingStore
    /\ cls.pc = "respond"
    /\ cls.sliding /\ FourSeconds /\ Len(cls.windows) >= 2

\* C22: the configuration is read from the environment once, at startup:
\* every classify request uses the feature mode, the embedding endpoint and
\* the base threshold of the environment the server started in, whatever
\* the environment has become since.
C22_ReadAtStartup ==
    /\ cls.pc # "idle" => cls.usePANNS = UsePANNS(bootEnv)
    /\ cls.serviceURL # "" => cls.serviceURL = EmbeddingServiceURL(bootEnv)
    /\ cls.pc = "done" => cls.baseThreshold = BaseThreshold(bootEnv)

\* The category of the first prototype of the store that carries the label
\* with a category.
FirstCategory(label) ==
    LET with == {i \in 1..Len(Store) : Store[i].label = label /\ Store[i].category # ""}
    IN Store[CHOOSE i \in with : \A j \in with : i <= j].category

\* C23: the per-label category is first-writer-wins: the category of a label
\* is the one of the first prototype that brought a category for it, in the
\* loaded file and through every AddPrototype since.
C23_FirstWriterWins ==
    \A label \in DOMAIN classifier.labelCategory :
       classifier.labelCategory[label] = FirstCategory(label)

ExamplePath == FallbackPath(ModelPathEnv)

\* C24: the .example file is a read-only seed: no step of the server creates,
\* replaces or modifies it, and a save of a store loaded from it writes the
\* primary model path.
C24_ExampleReadOnly ==
    [][/\ dir'[ExamplePath] = dir[ExamplePath]
       /\ dir[ExamplePath] # 0 => inodes'[dir[ExamplePath]] = inodes[dir[ExamplePath]]]_vars

\* C25: the windows of a sliding-window analysis start at sample 0, h, 2h,
\* ..., are numbered 0, 1, 2, ... in that order, lie within the input, and
\* every one of them spans exactly w samples.
C25_FullWindows ==
    \A i \in 1..Len(cls.spans) :
       /\ cls.spans[i].index = i - 1
       /\ cls.spans[i].start = (i - 1) * cls.hopSize
       /\ 0 <= cls.spans[i].start
       /\ cls.spans[i].start < cls.spans[i].end
       /\ cls.spans[i].end <= cls.audio.samples
       /\ cls.spans[i].end - cls.spans[i].start = cls.windowSize

\* C26: every prediction of Predict (single-pass or of a window) and of the
\* sliding-window aggregation carries at most 5 top prototypes, and a
\* prediction names a prototype id at most once.
C26_AtMostFive ==
    \A p \in Range(cls.predictions) \cup Range(Flatten(cls.windows)) :
       /\ Len(p.topPrototypes) <= TopPrototypeLimit
       /\ \A i, j \in 1..Len(p.topPrototypes) :
             p.topPrototypes[i].id = p.topPrototypes[j].id => i = j

\* C27: a classify request whose embedding service call failed or timed out
\* goes on with the hand-crafted feature vector of the same samples; it ends
\* in an error response only when that extraction fails, which it does on
\* empty samples.
C27_EmbeddingFallback ==
    cls.embedFailed =>
       /\ cls.usePANNS /\ cls.audio.persisted
       /\ cls.pc = "failed" <=> cls.audio.samples = 0
       /\ cls.pc # "failed" => Len(cls.features) = LegacyDim

\* A request whose embedding call failed has its classification response.
C27_Witness == cls.embedFailed /\ cls.pc = "done" /\ Len(cls.predictions) > 0

FileIds ==
    IF dir[classifier.modelPath] = 0 THEN {}
    ELSE {p.id : p \in Range(Unmarshal(inodes[dir[classifier.modelPath]]).prototypes)}

\* C29: once every concurrent upload has returned and each of them saw its
\* save succeed, the model file holds every prototype of the store.
C29_FileHoldsStore ==
    (/\ nextId > 0
     /\ \A u \in Uploaders : up[u].pc = "idle"
     /\ {s.id : s \in saved} = {UploadId(n) : n \in 1..nextId})
    => StoreIds(classifier) \subseteq FileIds

Ceil(a, b) == (a + b - 1) \div b

\* The hop is positive, the window is non-empty and no longer than the
\* input, the windows analysed so far start at increasing samples, and
\* there are no more of them than ceil(len(samples) / hop).
WindowsBounded ==
    cls.pc \in {"window", "aggregate"} /\ cls.windowSize > 0 =>
       /\ cls.hopSize >= 1
       /\ cls.hopSize <= cls.windowSize
       /\ cls.windowSize <= cls.audio.samples
       /\ Len(cls.spans) <= Ceil(cls.audio.samples, cls.hopSize)
       /\ \A i, j \in 1..Len(cls.spans) :
             i < j => cls.spans[i].start < cls.spans[j].start

\* C30: PredictWithSlidingWindows terminates on every non-empty input with
\* a positive sample rate, whatever the window and the overlap: the hop is
\* at least 1, at most ceil(len(samples) / hop) windows are analysed, and
\* every iteration either leaves the loop or moves the window start
\* forward, to a sample of the input.
C30_Terminates ==
    /\ []WindowsBounded
    /\ [][cls.pc = "window" /\ cls.windowSize > 0 =>
            \/ cls'.pc \in {"aggregate", "predict"}
            \/ /\ cls'.pc = "window"
               /\ cls'.start > cls.start
               /\ cls'.start < cls.audio.samples
               /\ Len(cls'.spans) = Len(cls.spans) + 1]_vars

\* The loop has analysed three windows or more with the hop of half a
\* window that an overlap of the window's length or more leads to.
C30_Witness ==
    /\ cls.pc = "aggregate"
    /\ Len(cls.spans) >= 3
    /\ cls.hopSize = cls.windowSize \div 2
====
